---- MODULE Spec2Model ----
(***************************************************************************)
(* Model of the aviation_radio crate (src/lib.rs): the validated value     *)
(* type RadioFrequency, its constructor, its queries, its Display and      *)
(* FromStr implementations, its derived comparison and its derived         *)
(* deserialization.                                                        *)
(*                                                                         *)
(* Text is modelled as a sequence of one-character strings, so formatting  *)
(* and parsing are computed digit by digit.                                *)
(***************************************************************************)
EXTENDS Integers, Sequences, FiniteSets, TLC

VARIABLES pc, op, arg, res, self, origin, out, x, y, z, ord

mainVars == <<pc, op, arg, res, self, origin, out>>
ordVars == <<x, y, z, ord>>
vars == <<pc, op, arg, res, self, origin, out, x, y, z, ord>>

----------------------------------------------------------------------------
(* Program constants *)

\* u16::MAX, the width of the fields left and right
U16Max == 65535

\* the band 118..=137 accepted for left
LeftMin == 118
LeftMax == 137

\* right % 100
ChannelModulus == 100

\* the minimum field width of "{:03}"
PadWidth == 3

VALID_CHANNELS == {0, 5, 10, 15, 25, 30, 35, 40, 50, 55, 60, 65, 75, 80, 85, 90}

SPACED_25_KHZ == {0, 25, 50, 75}

----------------------------------------------------------------------------
(* Bounds of the model *)

\* lefts tried around each end of the band: LeftMin-LeftMargin .. LeftMin+LeftMargin, same at LeftMax
LeftMargin == 2

\* rights 0..MaxLowRight are all tried (every value of right % 100 occurs)
MaxLowRight == 104

\* rights U16Max-HighRightSpan .. U16Max are all tried
HighRightSpan == 10

\* lefts LeftMin .. LeftMin+OrdLeftSpan are compared
OrdLeftSpan == 1

\* rights 0, 5, .., 5*OrdRightSteps are compared
OrdRightSteps == 1

----------------------------------------------------------------------------
(* Values *)

RadioFrequency(l, r, f) == [left |-> l, right |-> r, is_25_khz_spaced |-> f]

InvalidFrequency == [kind |-> "InvalidFrequency", cause |-> "None"]
NotEnoughParts == [kind |-> "NotEnoughParts", cause |-> "None"]
ParseError(cause) == [kind |-> "ParseError", cause |-> cause]
NoError == [kind |-> "None", cause |-> "None"]

\* Result<RadioFrequency, RadioFrequencyError>; val holds the instance of an Ok
Ok(v) == [ok |-> TRUE, val |-> <<v>>, err |-> NoError]
Err(e) == [ok |-> FALSE, val |-> <<>>, err |-> e]

----------------------------------------------------------------------------
(* RadioFrequency::new *)

\* new with the reduced value stored: right: last_two
new_stores_last_two(l, r) ==
    IF ~(l \in LeftMin..LeftMax)
    THEN Err(InvalidFrequency)
    ELSE LET last_two == r % ChannelModulus
         IN IF ~(last_two \in VALID_CHANNELS)
            THEN Err(InvalidFrequency)
            ELSE Ok(RadioFrequency(l, last_two, last_two \in SPACED_25_KHZ))

\* new with the band written 118..=138
new_band_off_by_one(l, r) ==
    IF ~(l \in LeftMin..(LeftMax + 1))
    THEN Err(InvalidFrequency)
    ELSE LET last_two == r % ChannelModulus
         IN IF ~(last_two \in VALID_CHANNELS)
            THEN Err(InvalidFrequency)
            ELSE Ok(RadioFrequency(l, r, last_two \in SPACED_25_KHZ))

new(l, r) ==
    IF ~(l \in LeftMin..LeftMax)
    THEN Err(InvalidFrequency)
    ELSE LET last_two == r % ChannelModulus
         IN IF ~(last_two \in VALID_CHANNELS)
            THEN Err(InvalidFrequency)
            ELSE Ok(RadioFrequency(l, r, last_two \in SPACED_25_KHZ))

\* is_8_33_khz_spaced without the negation
is_8_33_khz_spaced_not_negated(s) == s.is_25_khz_spaced

is_8_33_khz_spaced(s) == ~s.is_25_khz_spaced

is_25_khz_spaced(s) == s.is_25_khz_spaced

frequency(s) == <<s.left, s.right>>

left(s) == s.left

right(s) == s.right

----------------------------------------------------------------------------
(* Text *)

Digits == <<"0", "1", "2", "3", "4", "5", "6", "7", "8", "9">>

IsDigit(c) == \E i \in 1..10 : Digits[i] = c

\* char::to_digit(10) of a digit
DigitValue(c) == (CHOOSE i \in 1..10 : Digits[i] = c) - 1

\* the decimal digits of n, without padding (what Display for u16 writes)
RECURSIVE Decimal(_)
Decimal(n) == IF n < 10 THEN <<Digits[n + 1]>>
              ELSE Append(Decimal(n \div 10), Digits[(n % 10) + 1])

RECURSIVE Zeros(_)
Zeros(k) == IF k <= 0 THEN <<>> ELSE <<"0">> \o Zeros(k - 1)

\* "{:0w}" of an unsigned integer: zero-padded to at least w characters, never cut
ZeroPadded(n, w) == LET d == Decimal(n) IN Zeros(w - Len(d)) \o d

\* Display with right cut to three digits: self.right % 1000
fmt_right_cut(s) ==
    ZeroPadded(s.left, PadWidth) \o <<".">> \o ZeroPadded(s.right % 1000, PadWidth)

\* Display without padding: "{}.{}"
fmt_unpadded(s) == Decimal(s.left) \o <<".">> \o Decimal(s.right)

\* impl Display for RadioFrequency
fmt(s) == ZeroPadded(s.left, PadWidth) \o <<".">> \o ZeroPadded(s.right, PadWidth)

\* str::split('.'): the segments between the dots, at least one, as a sequence
RECURSIVE SplitFrom(_, _, _)
SplitFrom(s, i, cur) ==
    IF i > Len(s) THEN <<cur>>
    ELSE IF s[i] = "." THEN <<cur>> \o SplitFrom(s, i + 1, <<>>)
    ELSE SplitFrom(s, i + 1, Append(cur, s[i]))

split(s) == SplitFrom(s, 1, <<>>)

\* the digit loop of u16::from_str: checked_mul, to_digit, checked_add
RECURSIVE ParseDigits(_, _, _)
ParseDigits(d, i, acc) ==
    IF i > Len(d) THEN [ok |-> TRUE, val |-> acc, cause |-> "None"]
    ELSE IF ~IsDigit(d[i]) THEN [ok |-> FALSE, val |-> 0, cause |-> "InvalidDigit"]
    ELSE IF acc * 10 + DigitValue(d[i]) > U16Max
         THEN [ok |-> FALSE, val |-> 0, cause |-> "PosOverflow"]
    ELSE ParseDigits(d, i + 1, acc * 10 + DigitValue(d[i]))

\* str::parse::<u16>(): Ok(value) or the ParseIntError kind
parse_u16(s) ==
    IF Len(s) = 0 THEN [ok |-> FALSE, val |-> 0, cause |-> "Empty"]
    ELSE IF Len(s) = 1 /\ s[1] \in {"+", "-"}
         THEN [ok |-> FALSE, val |-> 0, cause |-> "InvalidDigit"]
    ELSE IF s[1] = "+" THEN ParseDigits(SubSeq(s, 2, Len(s)), 1, 0)
    ELSE ParseDigits(s, 1, 0)

\* from_str that takes both segments before parsing either
from_str_takes_both_first(s) ==
    LET parts == split(s)
    IN IF Len(parts) < 2 THEN Err(NotEnoughParts)
       ELSE LET l == parse_u16(parts[1])
                r == parse_u16(parts[2])
            IN IF ~l.ok THEN Err(ParseError(l.cause))
               ELSE IF ~r.ok THEN Err(ParseError(r.cause))
               ELSE new(l.val, r.val)

\* from_str that checks the band of left before it parses the second segment
from_str_validates_left_first(s) ==
    LET parts == split(s)
    IN IF Len(parts) < 1 THEN Err(NotEnoughParts)
       ELSE LET l == parse_u16(parts[1])
            IN IF ~l.ok THEN Err(ParseError(l.cause))
               ELSE IF ~(l.val \in LeftMin..LeftMax) THEN Err(InvalidFrequency)
               ELSE IF Len(parts) < 2 THEN Err(NotEnoughParts)
               ELSE LET r == parse_u16(parts[2])
                    IN IF ~r.ok THEN Err(ParseError(r.cause))
                       ELSE new(l.val, r.val)

\* from_str that parses what follows the first dot as one segment: split_once('.')
from_str_rest_after_first_dot(s) ==
    LET parts == split(s)
        first == parts[1]
        rest == SubSeq(s, Len(first) + 2, Len(s))
    IN LET l == parse_u16(first)
       IN IF ~l.ok THEN Err(ParseError(l.cause))
          ELSE IF Len(parts) < 2 THEN Err(NotEnoughParts)
          ELSE LET r == parse_u16(rest)
               IN IF ~r.ok THEN Err(ParseError(r.cause))
                  ELSE new(l.val, r.val)

\* impl FromStr for RadioFrequency
from_str(s) ==
    LET parts == split(s)
    IN IF Len(parts) < 1 THEN Err(NotEnoughParts)
       ELSE LET l == parse_u16(parts[1])
            IN IF ~l.ok THEN Err(ParseError(l.cause))
               ELSE IF Len(parts) < 2 THEN Err(NotEnoughParts)
               ELSE LET r == parse_u16(parts[2])
                    IN IF ~r.ok THEN Err(ParseError(r.cause))
                       ELSE new(l.val, r.val)

----------------------------------------------------------------------------
(* Derived comparison: #[derive(PartialEq, Eq, PartialOrd, Ord)] *)

\* Ord::cmp of two u16
cmp_u16(a, b) == IF a < b THEN "Less" ELSE IF a > b THEN "Greater" ELSE "Equal"

\* Ord::cmp of two bool: false < true
cmp_bool(a, b) == IF a = b THEN "Equal" ELSE IF b THEN "Less" ELSE "Greater"

\* cmp with right compared before left
cmp_right_first(a, b) ==
    LET c1 == cmp_u16(a.right, b.right)
    IN IF c1 # "Equal" THEN c1
       ELSE LET c2 == cmp_u16(a.left, b.left)
            IN IF c2 # "Equal" THEN c2
               ELSE cmp_bool(a.is_25_khz_spaced, b.is_25_khz_spaced)

\* derived Ord::cmp: the fields in declaration order, the first difference decides
cmp(a, b) ==
    LET c1 == cmp_u16(a.left, b.left)
    IN IF c1 # "Equal" THEN c1
       ELSE LET c2 == cmp_u16(a.right, b.right)
            IN IF c2 # "Equal" THEN c2
               ELSE cmp_bool(a.is_25_khz_spaced, b.is_25_khz_spaced)

\* derived PartialOrd: a < b
lt(a, b) == cmp(a, b) = "Less"

\* derived PartialEq: a == b, field by field
eq(a, b) == /\ a.left = b.left
            /\ a.right = b.right
            /\ a.is_25_khz_spaced = b.is_25_khz_spaced

\* derived Deserialize: the three fields are taken as given, new is not called
deserialize(l, r, f) == Ok(RadioFrequency(l, r, f))

----------------------------------------------------------------------------
(* Inputs *)

Lefts == ((LeftMin - LeftMargin)..(LeftMin + LeftMargin))
         \cup ((LeftMax - LeftMargin)..(LeftMax + LeftMargin))
         \cup {0, 110, 121, U16Max}

Rights == (0..MaxLowRight)
          \cup {300, 905, 999, 1000, 1003, 1005, 9990, 10000, 12345}
          \cup ((U16Max - HighRightSpan)..U16Max)

DeLefts == {0, 118, 137, 138}
DeRights == {0, 3, 5, 25, 905}

\* segments of the texts given to from_str
Segs == { <<>>,
          <<"a", "b", "c">>,
          <<"+">>,
          <<"-", "5">>,
          <<"+", "5">>,
          <<" ", "5">>,
          <<"1", "a">>,
          <<"5">>,
          <<"0", "0", "5">>,
          <<"0", "0", "3">>,
          <<"0", "1", "2">>,
          <<"1", "1", "8">>,
          <<"1", "2", "0">>,
          <<"1", "3", "7">>,
          <<"1", "3", "8">>,
          <<"0", "1", "1", "8">>,
          <<"9", "0", "5">>,
          <<"9", "9", "9">>,
          <<"1", "0", "0", "5">>,
          <<"6", "5", "5", "3", "5">>,
          <<"6", "5", "5", "3", "6">>,
          <<"9", "9", "9", "9", "9", "9">> }

\* what may follow a second dot
Tails == { <<>>,
           <<"x">>,
           <<"7">>,
           <<".">>,
           <<"0", "0", "5", ".", "7">>,
           <<"a", ".", "b">> }

Texts == Segs
         \cup {a \o <<".">> \o b : a \in Segs, b \in Segs}
         \cup {a \o <<".">> \o b \o <<".">> \o c : a \in Segs, b \in Segs, c \in Tails}

OrdLefts == LeftMin..(LeftMin + OrdLeftSpan)
OrdRights == {5 * k : k \in 0..OrdRightSteps}

----------------------------------------------------------------------------
(* State *)

NoArg == [left |-> 0, right |-> 0, flag |-> FALSE, text |-> <<>>]
NoOut == [text |-> <<>>, bool |-> FALSE, nums |-> <<>>, inst |-> <<>>]
NoRes == [ok |-> FALSE, val |-> <<>>, err |-> NoError]
NoOrd == [done |-> FALSE, xy |-> "None", yx |-> "None", yz |-> "None", xz |-> "None",
          lt_xy |-> FALSE, lt_yx |-> FALSE, eq_xy |-> FALSE]

MainInit == /\ pc = "idle"
            /\ op = "none"
            /\ arg = NoArg
            /\ res = NoRes
            /\ self = <<>>
            /\ origin = "none"
            /\ out = NoOut

OrdInit == /\ x = <<>>
           /\ y = <<>>
           /\ z = <<>>
           /\ ord = NoOrd

Init == MainInit /\ OrdInit

----------------------------------------------------------------------------
(* Operations on one binding: let self = <constructor>; then queries on it *)

\* the caller binds the result of a constructor call
Construct(name, a, r) ==
    /\ pc = "idle"
    /\ op' = name
    /\ arg' = a
    /\ res' = r
    /\ self' = r.val
    /\ origin' = IF r.ok THEN name ELSE "none"
    /\ pc' = IF r.ok THEN "live" ELSE "failed"
    /\ out' = NoOut
    /\ UNCHANGED ordVars

New == \E l \in Lefts, r \in Rights :
           /\ pc = "idle"
           /\ Construct("new", [NoArg EXCEPT !.left = l, !.right = r], new(l, r))

FromStr == \E s \in Texts :
               /\ pc = "idle"
               /\ Construct("from_str", [NoArg EXCEPT !.text = s], from_str(s))

Deserialize == \E l \in DeLefts, r \in DeRights, f \in BOOLEAN :
                   /\ pc = "idle"
                   /\ Construct("deserialize",
                                [NoArg EXCEPT !.left = l, !.right = r, !.flag = f],
                                deserialize(l, r, f))

Query(name, o) ==
    /\ pc = "live"
    /\ op' = name
    /\ out' = o
    /\ UNCHANGED <<pc, arg, res, self, origin>>
    /\ UNCHANGED ordVars

Is833KhzSpaced ==
    /\ pc = "live"
    /\ Query("is_8_33_khz_spaced", [NoOut EXCEPT !.bool = is_8_33_khz_spaced(self[1])])

Is25KhzSpaced ==
    /\ pc = "live"
    /\ Query("is_25_khz_spaced", [NoOut EXCEPT !.bool = is_25_khz_spaced(self[1])])

Frequency ==
    /\ pc = "live"
    /\ Query("frequency", [NoOut EXCEPT !.nums = frequency(self[1])])

Left ==
    /\ pc = "live"
    /\ Query("left", [NoOut EXCEPT !.nums = <<left(self[1])>>])

Right ==
    /\ pc = "live"
    /\ Query("right", [NoOut EXCEPT !.nums = <<right(self[1])>>])

\* self.to_string()
Fmt ==
    /\ pc = "live"
    /\ Query("fmt", [NoOut EXCEPT !.text = fmt(self[1])])

\* let c = self; (Copy)
Copy ==
    /\ pc = "live"
    /\ Query("copy", [NoOut EXCEPT !.inst = <<self[1]>>])

\* self.to_string().parse::<RadioFrequency>(): the text just written is parsed back
ParseFormatted ==
    /\ pc = "live"
    /\ op = "fmt"
    /\ op' = "parse_formatted"
    /\ res' = from_str(out.text)
    /\ UNCHANGED <<pc, arg, self, origin, out>>
    /\ UNCHANGED ordVars

\* the binding goes out of scope
Drop ==
    /\ pc \in {"live", "failed"}
    /\ pc' = "idle"
    /\ op' = "none"
    /\ arg' = NoArg
    /\ res' = NoRes
    /\ self' = <<>>
    /\ origin' = "none"
    /\ out' = NoOut
    /\ UNCHANGED ordVars

Next == \/ New
        \/ FromStr
        \/ Deserialize
        \/ Is833KhzSpaced
        \/ Is25KhzSpaced
        \/ Frequency
        \/ Left
        \/ Right
        \/ Fmt
        \/ Copy
        \/ ParseFormatted
        \/ Drop

Spec == Init /\ [][Next]_vars

----------------------------------------------------------------------------
(* Comparison of three bindings x, y, z *)

Binding(v, by) == [v |-> v, by |-> by]

\* x, y and z are bound to instances that new returned or that were deserialized
OrdBind ==
    /\ ~ord.done
    /\ \E b \in {Binding(new(l, r).val[1], "new") :
                     l \in {k \in OrdLefts : new(k, 0).ok},
                     r \in {k \in OrdRights : new(LeftMin, k).ok}}
                \cup {Binding(deserialize(l, r, f).val[1], "deserialize") :
                     l \in OrdLefts, r \in OrdRights, f \in BOOLEAN} :
          \/ x' = <<b>> /\ UNCHANGED <<y, z>>
          \/ y' = <<b>> /\ UNCHANGED <<x, z>>
          \/ z' = <<b>> /\ UNCHANGED <<x, y>>
    /\ UNCHANGED ord
    /\ UNCHANGED mainVars

\* x.cmp(&y), y.cmp(&x), y.cmp(&z), x.cmp(&z), x < y, y < x, x == y
OrdCompare ==
    /\ ~ord.done
    /\ x # <<>> /\ y # <<>> /\ z # <<>>
    /\ ord' = [done |-> TRUE,
               xy |-> cmp(x[1].v, y[1].v),
               yx |-> cmp(y[1].v, x[1].v),
               yz |-> cmp(y[1].v, z[1].v),
               xz |-> cmp(x[1].v, z[1].v),
               lt_xy |-> lt(x[1].v, y[1].v),
               lt_yx |-> lt(y[1].v, x[1].v),
               eq_xy |-> eq(x[1].v, y[1].v)]
    /\ UNCHANGED <<x, y, z>>
    /\ UNCHANGED mainVars

\* the three bindings go out of scope
OrdDrop ==
    /\ ord.done
    /\ x' = <<>>
    /\ y' = <<>>
    /\ z' = <<>>
    /\ ord' = NoOrd
    /\ UNCHANGED mainVars

NextOrd == OrdBind \/ OrdCompare \/ OrdDrop

SpecOrd == Init /\ [][NextOrd]_vars

----------------------------------------------------------------------------
(* Vocabulary of the properties, written from their statements *)

\* the band of the integral part
Band == 118..137

\* the sixteen channel codes
ChannelCodes == {0, 5, 10, 15, 25, 30, 35, 40, 50, 55, 60, 65, 75, 80, 85, 90}

\* the codes of the 25 kHz plan
Codes25 == {0, 25, 50, 75}

ValidInput(l, r) == l \in Band /\ (r % 100) \in ChannelCodes

WellFormed(f) == /\ f.left \in Band
                 /\ (f.right % 100) \in ChannelCodes
                 /\ f.is_25_khz_spaced = ((f.right % 100) \in Codes25)

\* every instance the state holds: the binding, the last result, the copy
LiveInstances == {self[i] : i \in DOMAIN self}
                 \cup {res.val[i] : i \in DOMAIN res.val}
                 \cup {out.inst[i] : i \in DOMAIN out.inst}

\* the binding was made by a validating constructor
Validated == origin \in {"new", "from_str"}

AllDigits(d) == \A i \in DOMAIN d : d[i] \in {"0", "1", "2", "3", "4", "5", "6", "7", "8", "9"}

DigitOf(c) == CASE c = "0" -> 0 [] c = "1" -> 1 [] c = "2" -> 2 [] c = "3" -> 3
                [] c = "4" -> 4 [] c = "5" -> 5 [] c = "6" -> 6 [] c = "7" -> 7
                [] c = "8" -> 8 [] c = "9" -> 9

\* the number a string of digits denotes
RECURSIVE NumberOf(_)
NumberOf(d) == IF Len(d) = 0 THEN 0
               ELSE 10 * NumberOf(SubSeq(d, 1, Len(d) - 1)) + DigitOf(d[Len(d)])

\* the digits of a segment, an optional leading plus sign removed
Unsigned(seg) == IF Len(seg) > 0 /\ seg[1] = "+" THEN SubSeq(seg, 2, Len(seg)) ELSE seg

\* the segment is an unsigned 16-bit decimal integer
IsDecimalU16(seg) == /\ Len(Unsigned(seg)) > 0
                     /\ AllDigits(Unsigned(seg))
                     /\ NumberOf(Unsigned(seg)) <= 65535

ValueOf(seg) == NumberOf(Unsigned(seg))

DotPositions(t) == {i \in DOMAIN t : t[i] = "."}

Min(S) == CHOOSE m \in S : \A k \in S : m <= k

\* the text before the first dot (the whole text when it has none)
FirstSegment(t) == IF DotPositions(t) = {} THEN t
                   ELSE SubSeq(t, 1, Min(DotPositions(t)) - 1)

\* the text between the first dot and the second (or the end)
SecondSegment(t) == LET d1 == Min(DotPositions(t))
                        later == {i \in DotPositions(t) : i > d1}
                    IN IF later = {} THEN SubSeq(t, d1 + 1, Len(t))
                       ELSE SubSeq(t, d1 + 1, Min(later) - 1)

\* the text up to, not including, the second dot
UpToSecondDot(t) == LET d1 == Min(DotPositions(t))
                        later == {i \in DotPositions(t) : i > d1}
                    IN SubSeq(t, 1, Min(later) - 1)

NumDigits(n) == IF n < 10 THEN 1 ELSE IF n < 100 THEN 2 ELSE IF n < 1000 THEN 3
                ELSE IF n < 10000 THEN 4 ELSE 5

AtLeast3(n) == IF n < 3 THEN 3 ELSE n

----------------------------------------------------------------------------
(* C1 *)

\* C1: every instance that exists, however it was made (new, parsing, copying,
\* deserialization), has left in [118, 137], right mod 100 among the sixteen
\* channel codes and a flag equal to (right mod 100 in {0, 25, 50, 75}).
C1_EveryInstanceWellFormed == \A f \in LiveInstances : WellFormed(f)

----------------------------------------------------------------------------
(* C2 *)

\* C2: for left in [118, 137] and right with a valid channel code, new(left, right)
\* succeeds, and frequency(), left() and right() of the instance return the
\* arguments unchanged (right in full, not reduced modulo 100).
C2_NewKeepsValidInput ==
    /\ (op = "new" /\ ValidInput(arg.left, arg.right)) =>
           /\ res.ok
           /\ pc = "live"
           /\ self = res.val
    /\ (origin = "new" /\ op = "frequency") => out.nums = <<arg.left, arg.right>>
    /\ (origin = "new" /\ op = "left") => out.nums = <<arg.left>>
    /\ (origin = "new" /\ op = "right") => out.nums = <<arg.right>>

\* new(120, r) with r above 999 succeeded and frequency() returned (120, r)
C2_Witness == /\ origin = "new"
              /\ op = "frequency"
              /\ arg.left = 120
              /\ arg.right > 999
              /\ out.nums = <<120, arg.right>>

----------------------------------------------------------------------------
(* C3 *)

\* C3: new fails with InvalidFrequency, and yields no instance, when left is
\* outside [118, 137] or right mod 100 is no channel code; it fails with nothing else.
C3_NewRejectsInvalidInput ==
    /\ (op = "new" /\ ~ValidInput(arg.left, arg.right)) =>
           /\ res = Err(InvalidFrequency)
           /\ self = <<>>
           /\ pc = "failed"
    /\ (op = "new" /\ ~res.ok) => res.err.kind = "InvalidFrequency"

\* new(118, 3) failed with InvalidFrequency
C3_Witness == /\ op = "new"
              /\ arg.left = 118
              /\ arg.right = 3
              /\ res.err.kind = "InvalidFrequency"
              /\ self = <<>>

----------------------------------------------------------------------------
(* C4 *)

\* C4: the text written for a validated instance parses back to an equal instance.
C4_RoundTrip ==
    (op = "parse_formatted" /\ Validated) =>
        /\ res.ok
        /\ eq(res.val[1], self[1])
        /\ res.val = self

\* an instance with right above 999 was written and parsed back
C4_Witness == /\ op = "parse_formatted"
              /\ origin = "new"
              /\ self[1].right > 999
              /\ res.ok
              /\ res.val = self

----------------------------------------------------------------------------
(* C5 *)

\* C5 as stated: a text without a dot fails with NotEnoughParts, whatever it holds.
C5_NoDotIsNotEnoughParts ==
    (op = "from_str" /\ DotPositions(arg.text) = {}) => res = Err(NotEnoughParts)

\* C5 as amended: a text without a dot fails; with NotEnoughParts when the text is
\* an unsigned 16-bit decimal integer, and with ParseError when it is not.
C5_NoDotFails ==
    (op = "from_str" /\ DotPositions(arg.text) = {}) =>
        /\ ~res.ok
        /\ self = <<>>
        /\ IsDecimalU16(arg.text) => res = Err(NotEnoughParts)
        /\ ~IsDecimalU16(arg.text) => res.err.kind = "ParseError"

\* "120" failed with NotEnoughParts
C5_Witness == /\ op = "from_str"
              /\ arg.text = <<"1", "2", "0">>
              /\ res = Err(NotEnoughParts)

----------------------------------------------------------------------------
(* C6 *)

\* C6: on a validated instance is_25_khz_spaced() is true exactly when right mod 100
\* is in {0, 25, 50, 75}, and is_8_33_khz_spaced() is its negation.
C6_SpacingQueries ==
    /\ (Validated /\ op = "is_25_khz_spaced") =>
           out.bool = ((self[1].right % 100) \in Codes25)
    /\ (Validated /\ op = "is_8_33_khz_spaced") =>
           out.bool = ~((self[1].right % 100) \in Codes25)

\* new(120, 905) is 8.33 kHz spaced
C6_Witness == /\ origin = "new"
              /\ op = "is_8_33_khz_spaced"
              /\ arg.left = 120
              /\ arg.right = 905
              /\ out.bool = TRUE

----------------------------------------------------------------------------
(* C7 *)

\* a is before b: by left, then by right, then false before true
ClaimedLess(a, b) ==
    \/ a.left < b.left
    \/ a.left = b.left /\ a.right < b.right
    \/ a.left = b.left /\ a.right = b.right /\ ~a.is_25_khz_spaced /\ b.is_25_khz_spaced

\* C7: the order is total, compares left, then right, then the flag, and between
\* instances made by new is decided by (left, right) alone.
C7_Order ==
    ord.done =>
        LET a == x[1].v
            b == y[1].v
        IN /\ ord.lt_xy <=> ClaimedLess(a, b)
           /\ ord.lt_yx <=> ClaimedLess(b, a)
           /\ (ord.xy = "Less") <=> ClaimedLess(a, b)
           /\ (ord.xy = "Greater") <=> ClaimedLess(b, a)
           /\ (ord.xy = "Equal") <=> ord.eq_xy
           /\ (ord.yx = "Less") <=> (ord.xy = "Greater")
           /\ Cardinality({k \in {"lt", "eq", "gt"} :
                  \/ k = "lt" /\ ord.lt_xy
                  \/ k = "eq" /\ ord.eq_xy
                  \/ k = "gt" /\ ord.lt_yx}) = 1
           /\ (ord.xy \in {"Less", "Equal"} /\ ord.yz \in {"Less", "Equal"}) =>
                  ord.xz \in {"Less", "Equal"}
           /\ (ord.xy = "Less" /\ ord.yz \in {"Less", "Equal"}) => ord.xz = "Less"
           /\ (ord.xy \in {"Less", "Equal"} /\ ord.yz = "Less") => ord.xz = "Less"
           /\ (x[1].by = "new" /\ y[1].by = "new") =>
                  /\ ord.eq_xy <=> (a.left = b.left /\ a.right = b.right)
                  /\ ord.lt_xy <=> \/ a.left < b.left
                                   \/ a.left = b.left /\ a.right < b.right

\* two instances made by new with the same left were ordered by right, and a
\* deserialized one was compared with them
C7_Witness == /\ ord.done
              /\ x[1].by = "new"
              /\ y[1].by = "new"
              /\ z[1].by = "deserialize"
              /\ x[1].v.left = y[1].v.left
              /\ x[1].v.right < y[1].v.right
              /\ x[1].v.is_25_khz_spaced /\ ~y[1].v.is_25_khz_spaced
              /\ ord.lt_xy
              /\ ord.yz = "Less"
              /\ ord.xz = "Less"

----------------------------------------------------------------------------
(* C8 *)

\* C8: the text written is the digits of left, one dot, the digits of right, each
\* part zero-padded to at least three digits and never cut.
C8_Format ==
    op = "fmt" =>
        LET t == out.text
            L == FirstSegment(t)
            R == SecondSegment(t)
        IN /\ Cardinality(DotPositions(t)) = 1
           /\ AllDigits(L) /\ AllDigits(R)
           /\ NumberOf(L) = self[1].left
           /\ NumberOf(R) = self[1].right
           /\ Len(L) = AtLeast3(NumDigits(self[1].left))
           /\ Len(R) = AtLeast3(NumDigits(self[1].right))
           /\ self[1].right > 999 => Len(R) > 3

\* a right above 999 was written in full, a right below 100 was padded
C8_Witness == /\ op = "fmt"
              /\ self[1].right = 10000
              /\ out.text = <<"1", "2", "0", ".", "1", "0", "0", "0", "0">>

----------------------------------------------------------------------------
(* C9 *)

\* C9: when the first segment is no unsigned 16-bit decimal integer, or the first
\* is and the second is present and is none, parsing fails with ParseError, before
\* any validation of the band or of the channel code.
C9_BadSegmentIsParseError ==
    op = "from_str" =>
        LET t == arg.text
        IN /\ ~IsDecimalU16(FirstSegment(t)) =>
                  ~res.ok /\ res.err.kind = "ParseError" /\ self = <<>>
           /\ (/\ IsDecimalU16(FirstSegment(t))
               /\ DotPositions(t) # {}
               /\ ~IsDecimalU16(SecondSegment(t))) =>
                  ~res.ok /\ res.err.kind = "ParseError" /\ self = <<>>

\* "999.abc" failed with ParseError
C9_Witness == /\ op = "from_str"
              /\ arg.text = <<"9", "9", "9", ".", "a", "b", "c">>
              /\ res.err.kind = "ParseError"

----------------------------------------------------------------------------
(* C10 *)

\* C10: the result of parsing A.B.C is the result of parsing A.B, and when A and B
\* are integers it is the result of new on them.
C10_TailIgnored ==
    (op = "from_str" /\ Cardinality(DotPositions(arg.text)) >= 2) =>
        LET t == arg.text
            A == FirstSegment(t)
            B == SecondSegment(t)
        IN /\ UpToSecondDot(t) = A \o <<".">> \o B
           /\ res = from_str(A \o <<".">> \o B)
           /\ (IsDecimalU16(A) /\ IsDecimalU16(B)) => res = new(ValueOf(A), ValueOf(B))

\* "120.905.a.b" parsed to (120, 905)
C10_Witness == /\ op = "from_str"
               /\ arg.text = <<"1", "2", "0", ".", "9", "0", "5", ".", "a", ".", "b">>
               /\ res.ok
               /\ self[1].left = 120
               /\ self[1].right = 905

====
